---- MODULE Spec2Model ----
(***************************************************************************)
(* Knock-out barrier swaption under the LIBOR market model: the Monte      *)
(* Carlo loops of Swaption.ipynb (the main loop with the three-tier        *)
(* barrier test and the later "order 1/2" loop), the swap rate function,   *)
(* the fast barrier projector and the correlation set-up.                  *)
(*                                                                         *)
(* Real numbers are fixed-point integers with six decimals (1.0 is Scale). *)
(* Every Python float operation is modelled by the fixed-point operation   *)
(* of the same name, rounded to the nearest unit, so exp/log round trips   *)
(* are not the identity here either.  Vectors are functions on 0..N-1, as  *)
(* numpy indexes them.                                                     *)
(***************************************************************************)
EXTENDS Integers, Sequences, FiniteSets, TLC

VARIABLES
    params,        \* scalar model parameters: N, T0, delta, M, h, K, Rup, beta, n_paths
    L0,            \* initial forward curve
    sigma,         \* volatilities
    rho,           \* correlation matrix
    U,             \* cholesky(rho, lower=False)
    drift_mat,     \* np.tril(rho * outer(sigma, sigma))
    P0_T0,         \* 1/(1 + delta*L0[0])
    payoffs, exit_times, discount_sums, prices,   \* the result arrays, shared by both loops
    run,           \* which loop cell is executing: "main" or "half"
    pc,            \* position in the cell: "init", "step", "record", "aggregate", "done", "aborted"
    p,             \* path index of the for loop
    k,             \* step index of the inner for loop
    logL, knocked_out, exit_step,                 \* per-path variables
    sigma_max, coarse_bound,                      \* per-path: the bound of eq. (6.7)
    price, mean_exit_time,                        \* the aggregates computed so far, one per loop
    raised,                                       \* the exception that left the cell, if any
    rng_pos,       \* how many values the global np.random stream has handed out
    trace          \* history: what each path of each run ended with

vars == <<params, L0, sigma, rho, U, drift_mat, P0_T0, payoffs, exit_times,
          discount_sums, prices, run, pc, p, k, logL, knocked_out, exit_step,
          sigma_max, coarse_bound, price, mean_exit_time, raised, rng_pos, trace>>

shared == <<params, L0, sigma, rho, U, drift_mat, P0_T0>>

(***************************************************************************)
(* Bounds of the model.                                                    *)
(***************************************************************************)
MSteps == 2
NPaths == 2
PGrid == 2

(***************************************************************************)
(* Fixed-point arithmetic.  TLC integers are 32 bits wide, so products and *)
(* quotients are computed in pieces that stay below 2^31.                  *)
(***************************************************************************)
Scale == 1000 * 1000

Abs(a) == IF a < 0 THEN -a ELSE a

Sgn(a) == IF a < 0 THEN -1 ELSE 1

Max2(a, b) == IF a >= b THEN a ELSE b

\* a / n for an integer n > 0, rounded towards zero
TDiv(a, n) == Sgn(a) * (Abs(a) \div n)

\* a * b
Mul(a, b) ==
    LET x  == Abs(a)
        y  == Abs(b)
        x1 == x \div 1000
        x0 == x % 1000
        y1 == y \div 1000
        y0 == y % 1000
        t  == x1 * y0 + x0 * y1 + (x0 * y0) \div 1000
    IN  Sgn(a) * Sgn(b) * (x1 * y1 + (t + 500) \div 1000)

\* a / b
Div(a, b) ==
    LET x  == Abs(a)
        y  == Abs(b)
        q0 == x \div y
        r0 == x % y
        d1 == (r0 * 100) \div y
        r1 == (r0 * 100) % y
        d2 == (r1 * 100) \div y
        r2 == (r1 * 100) % y
        d3 == (r2 * 100) \div y
        r3 == (r2 * 100) % y
    IN  Sgn(a) * Sgn(b) *
        (q0 * Scale + d1 * 10000 + d2 * 100 + d3 + (IF 2 * r3 >= y THEN 1 ELSE 0))

RECURSIVE SqrtIter(_, _)
SqrtIter(x, y) ==
    LET y2 == (y + Div(x, y)) \div 2
    IN  IF y2 >= y THEN y ELSE SqrtIter(x, y2)

\* np.sqrt, by Newton's iteration from above
Sqrt(x) == IF x <= 0 THEN 0 ELSE SqrtIter(x, (x + Scale) \div 2)

RECURSIVE ExpTerms(_, _, _, _)
ExpTerms(x, t, n, acc) ==
    IF n > 8 THEN acc
    ELSE LET t2 == TDiv(Mul(t, x), n)
         IN  ExpTerms(x, t2, n + 1, acc + t2)

RECURSIVE Exp(_)
\* np.exp: the Taylor series on [-1/2, 1/2], squared up from there
Exp(x) ==
    IF Abs(x) > Scale \div 2
    THEN LET e == Exp(TDiv(x, 2)) IN Mul(e, e)
    ELSE ExpTerms(x, Scale, 1, Scale)

LN2 == 693147

RECURSIVE Ln(_)
\* np.log of y > 0: brought into [0.7, 1.4] by factors of 2, then the atanh series
Ln(y) ==
    IF y > 1400000 THEN Ln((y + 1) \div 2) + LN2
    ELSE IF y < 700000 THEN Ln(2 * y) - LN2
    ELSE LET z  == Div(y - Scale, y + Scale)
             z2 == Mul(z, z)
             z3 == Mul(z, z2)
             z5 == Mul(z3, z2)
             z7 == Mul(z5, z2)
         IN  2 * (z + TDiv(z3, 3) + TDiv(z5, 5) + TDiv(z7, 7))

(***************************************************************************)
(* Vectors.                                                                *)
(***************************************************************************)
\* A function constructor is evaluated entry by entry, once, when combined with
\* the empty function: a numpy array holds values, not the expression.
Array(f) == f @@ << >>

Vec(s) == Array([i \in 0..(Len(s) - 1) |-> s[i + 1]])

Dim(x) == Cardinality(DOMAIN x)

RECURSIVE SumUpTo(_, _)
SumUpTo(f, n) == IF n < 0 THEN 0 ELSE f[n] + SumUpTo(f, n - 1)

\* np.sum
Sum(f) == SumUpTo(f, Dim(f) - 1)

RECURSIVE MaxUpTo(_, _)
MaxUpTo(f, n) == IF n = 0 THEN f[0] ELSE Max2(f[n], MaxUpTo(f, n - 1))

\* np.max
MaxOf(f) == MaxUpTo(f, Dim(f) - 1)

RECURSIVE ProdUpTo(_, _)
\* np.cumprod(f)[n]
ProdUpTo(f, n) == IF n = 0 THEN f[0] ELSE Mul(ProdUpTo(f, n - 1), f[n])

ExpVec(x) == Array([i \in DOMAIN x |-> Exp(x[i])])

LnVec(x) == Array([i \in DOMAIN x |-> Ln(x[i])])

\* A @ x
MatVec(A, x) ==
    Array([i \in DOMAIN x |-> SumUpTo([j \in DOMAIN x |-> Mul(A[i][j], x[j])], Dim(x) - 1)])

(***************************************************************************)
(* 1. Swap rate function.                                                  *)
(***************************************************************************)
R_swap(x, delta) ==
    LET L             == ExpVec(x)
        one_plus      == Array([i \in DOMAIN x |-> Scale + Mul(delta, L[i])])
        cumprod       == Array([i \in DOMAIN x |-> ProdUpTo(one_plus, i)])
        discount_prod == cumprod[Dim(x) - 1]
        numer         == Scale - Div(Scale, discount_prod)
        denom         == Mul(delta, Sum([i \in DOMAIN x |-> Div(Scale, cumprod[i])]))
    IN  Div(numer, denom)

(***************************************************************************)
(* 2. Fast projection to the barrier.                                      *)
(***************************************************************************)
RECURSIVE ProdFrom(_, _, _)
\* np.cumprod(f[::-1])[::-1][i]: the product of f[i..n]
ProdFrom(f, i, n) == IF i > n THEN Scale ELSE Mul(f[i], ProdFrom(f, i + 1, n))

RECURSIVE SumFrom(_, _, _)
SumFrom(f, i, n) == IF i > n THEN 0 ELSE f[i] + SumFrom(f, i + 1, n)

\* ln L[0] from y = logL[1..N-1], as both copies of the formula in
\* project_to_barrier2 compute it (the subtraction of 1/delta outside the log)
logL0_of(y, delta, Rup) ==
    LET n           == Dim(y)
        Lpi_tail    == Array([j \in DOMAIN y |-> Exp(y[j])])
        one_plus    == Array([j \in DOMAIN y |-> Scale + Mul(delta, Lpi_tail[j])])
        prods       == Array([i \in DOMAIN y |-> ProdFrom(one_plus, i, n)])
        sum_term    == Scale + SumFrom(prods, 1, n)
        numerator   == Mul(Rup, sum_term) + Scale
        denominator == ProdFrom(one_plus, 1, n)
    IN  Ln(Div(numerator, denominator)) - Div(Scale, delta)

\* logLpi: coordinate 0 from the closed form, the others y
logLpi_of(y, delta, Rup) ==
    Array([i \in 0..Dim(y) |-> IF i = 0 THEN logL0_of(y, delta, Rup) ELSE y[i]])

SqDist(a, b) == Sum(Array([i \in DOMAIN a |-> Mul(a[i] - b[i], a[i] - b[i])]))

objective(y, x, delta, Rup) == SqDist(logLpi_of(y, delta, Rup), x)

\* the points the optimizer's search visits: a grid of step 0.05 around y0
SearchPoints(y0) ==
    { Array([j \in DOMAIN y0 |-> y0[j] + o[j] * (Scale \div 20)]) :
        o \in [DOMAIN y0 -> (-PGrid)..PGrid] }

\* res.x of minimize(objective, y0, method='L-BFGS-B') when res.success
minimize(x, y0, delta, Rup) ==
    LET pts == SearchPoints(y0)
        obj == Array([y \in pts |-> objective(y, x, delta, Rup)])
    IN  CHOOSE y \in pts : \A z \in pts : obj[y] <= obj[z]

project_to_barrier2(x, delta, Rup) ==
    LET y0    == Array([j \in 1..(Dim(x) - 1) |-> x[j]])
        y_opt == minimize(x, y0, delta, Rup)
    IN  logLpi_of(y_opt, delta, Rup)

(***************************************************************************)
(* 3. Model set-up.  A configuration is what the parameter cell assigns.   *)
(***************************************************************************)
Config(L0v, sigmav, delta, K, Rup, beta) ==
    [L0 |-> Vec(L0v), sigma |-> Vec(sigmav), delta |-> delta, K |-> K,
     Rup |-> Rup, beta |-> beta]

\* The parameter cells the model is run with (N = 2 forward rates, h = 1/4).
\* The last curve is its own image under project_to_barrier2.
Configs ==
    { Config(<<50000, 50000>>,  <<200000, 200000>>, Scale, 10000, 60000, 100000),
      Config(<<100000, 10000>>, <<200000, 200000>>, Scale, 10000, 65000, 100000),
      Config(<<80000, 80000>>,  <<200000, 100000>>, Scale, 10000, 75000, 100000),
      Config(<<50000, 50000>>,  <<0, 0>>,           Scale, 10000, 75000, 100000),
      Config(<<90000, 30000>>,  <<0, 0>>,           Scale, 10000, 75000, 100000),
      Config(<<317635, 50000>>, <<200000, 200000>>, 800000, 10000, 75000, 100000) }

\* T0 is a whole number of quarter-year steps, so that h = T0 / M is exact
T0Of(M) == M * (Scale \div 4)

ParamsOf(c) ==
    [N |-> Dim(c.L0), T0 |-> T0Of(MSteps), delta |-> c.delta, M |-> MSteps,
     h |-> TDiv(T0Of(MSteps), MSteps), K |-> c.K, Rup |-> c.Rup, beta |-> c.beta,
     n_paths |-> NPaths]

Idx(n) == 0..(n - 1)

TimesOf(n, delta, T0) == Array([i \in Idx(n) |-> i * delta + T0 - n * delta])

RhoOf(n, delta, T0, beta) ==
    LET times == TimesOf(n, delta, T0)
    IN  Array([i \in Idx(n) |->
            Array([j \in Idx(n) |-> Exp(-Mul(beta, Abs(times[i] - times[j])))])])

RECURSIVE CholEntry(_, _, _)
\* entry (i, j) of the upper triangular factor scipy's cholesky(r, lower=False)
\* returns, the U with U^T U = r
CholEntry(r, i, j) ==
    LET dot(a, b) == SumUpTo([m \in Idx(i) |-> Mul(CholEntry(r, m, a), CholEntry(r, m, b))], i - 1)
    IN  IF j < i THEN 0
        ELSE IF j = i THEN Sqrt(r[i][i] - dot(i, i))
        ELSE Div(r[i][j] - dot(i, j), CholEntry(r, i, i))

cholesky(r) == Array([i \in DOMAIN r |-> Array([j \in DOMAIN r |-> CholEntry(r, i, j)])])

DriftMatOf(r, sig) ==
    Array([i \in DOMAIN r |-> Array([j \in DOMAIN r |->
        IF j <= i THEN Mul(r[i][j], Mul(sig[i], sig[j])) ELSE 0])])

Runs == {"main", "half"}

Zeros(n) == Array([i \in Idx(n) |-> 0])

NoResult == [started |-> FALSE, done |-> FALSE, knocked_out |-> FALSE, exit_step |-> 0,
             price |-> 0, boundary |-> FALSE, start |-> 0,
             xis |-> << >>, logLs |-> << >>, tiers |-> << >>]

Init ==
    \E c \in Configs :
      \E r \in {RhoOf(Dim(c.L0), c.delta, T0Of(MSteps), c.beta)} :
        /\ params = ParamsOf(c)
        /\ L0 = c.L0
        /\ sigma = c.sigma
        /\ rho = r
        /\ U = cholesky(r)
        /\ drift_mat = DriftMatOf(r, c.sigma)
        /\ P0_T0 = Div(Scale, Scale + Mul(c.delta, c.L0[0]))
        /\ payoffs = Zeros(NPaths)
        /\ exit_times = Zeros(NPaths)
        /\ discount_sums = Zeros(NPaths)
        /\ prices = Zeros(NPaths)
        /\ run = "main"
        /\ pc = "init"
        /\ p = 0
        /\ k = 0
        /\ logL = Zeros(Dim(c.L0))
        /\ knocked_out = FALSE
        /\ exit_step = MSteps
        /\ sigma_max = 0
        /\ coarse_bound = 0
        /\ price = << >>
        /\ mean_exit_time = << >>
        /\ raised = "none"
        /\ rng_pos = 0
        /\ trace = [r2 \in Runs |-> [q \in Idx(NPaths) |-> NoResult]]

(***************************************************************************)
(* 4. One path: the per-step quantities of both loops.                     *)
(***************************************************************************)
\* eq. (6.7): sigma_max**2*h*N - 0.5*sigma_max**2*h + sigma_max*np.sqrt(h*N)
CoarseBoundOf(smax) ==
    Mul(Mul(smax, smax), params.h) * params.N
    - Mul(Mul(Scale \div 2, Mul(smax, smax)), params.h)
    + Mul(smax, Sqrt(params.h * params.N))

drift_vec(x) ==
    LET L  == ExpVec(x)
        v  == Array([i \in DOMAIN x |->
                  Div(Mul(params.delta, L[i]), Scale + Mul(params.delta, L[i]))])
        dv == MatVec(drift_mat, v)
    IN  Array([i \in DOMAIN x |->
            Mul(dv[i], params.h) - Mul(Mul(Scale \div 2, Mul(sigma[i], sigma[i])), params.h)])

\* the +-1 vectors np.random.choice([-1,1], size=N) can return
Shocks == [Idx(params.N) -> {-1, 1}]

\* fault variant of diffusion: the shock is not scaled by sigma
diffusionUnscaled(xi) ==
    LET Uxi    == MatVec(U, [j \in DOMAIN xi |-> xi[j] * Scale])
        sqrt_h == Sqrt(params.h)
    IN  Array([i \in DOMAIN xi |-> Mul(sqrt_h, Uxi[i])])

\* sigma * np.sqrt(h) * (U @ xi)
diffusion(xi) ==
    LET Uxi    == MatVec(U, [j \in DOMAIN xi |-> xi[j] * Scale])
        sqrt_h == Sqrt(params.h)
    IN  Array([i \in DOMAIN xi |-> Mul(Mul(sigma[i], sqrt_h), Uxi[i])])

\* logL += drift_vec + diffusion
StandardStep(x, dv, xi) ==
    LET d == diffusion(xi)
    IN  Array([i \in DOMAIN x |-> x[i] + (dv[i] + d[i])])

\* np.max(logL) + coarse_bound < np.log(Rup)
CoarseSafe(x) == MaxOf(x) + coarse_bound < Ln(params.Rup)

\* R_swap(logL_pert, delta) < Rup
FineSafe(x) ==
    LET L           == ExpVec(x)
        drift_worst == Array([i \in DOMAIN x |-> Mul(Mul((i + 1) * sigma[i], sigma_max), params.h)])
        diff_worst  == Array([i \in DOMAIN x |-> Mul(sigma[i], Sqrt((params.N - i) * params.h))])
        L_pert      == Array([i \in DOMAIN x |-> Mul(L[i], Scale + drift_worst[i] + diff_worst[i])])
        logL_pert   == LnVec(L_pert)
    IN  R_swap(logL_pert, params.delta) < params.Rup

\* which branch of the step body the state takes: the checks are tried in order
Tier(x) ==
    IF CoarseSafe(x) THEN "coarse" ELSE IF FineSafe(x) THEN "fine" ELSE "boundary"

\* np.linalg.norm(a - b)
Norm(a, b) == Sqrt(SqDist(a, b))

lambda_k == Mul(Sqrt(params.N * Scale), coarse_bound)

\* the values np.random.rand() is modelled to return, all in [0, 1)
Uniforms == {0, Scale \div 10, Scale \div 4, Scale \div 2, Scale - 1}

\* fault variant of KnockOutDraw: the complementary probability
KnockOutDrawInverted(u, dist) == u < Div(dist, dist + lambda_k)

\* np.random.rand() < lambda_k / (dist + lambda_k)
KnockOutDraw(u, dist) == u < Div(lambda_k, dist + lambda_k)

\* logL += (lambda_k / dist) * (logL_pi - logL)
JumpBack(x, logL_pi, dist) ==
    Array([i \in DOMAIN x |-> x[i] + Mul(Div(lambda_k, dist), logL_pi[i] - x[i])])

(***************************************************************************)
(* 5. The two Monte Carlo loops.                                           *)
(***************************************************************************)
\* the inner for loop goes on to step k+1, or is exhausted
AfterStep == IF k + 1 < params.M THEN "step" ELSE "record"

Mark(field, value) == [trace EXCEPT ![run][p][field] = value]

\* history: the path starts from x
Started(x) ==
    [trace EXCEPT ![run][p] =
        [NoResult EXCEPT !.started = TRUE, !.start = rng_pos, !.logLs = <<x>>]]

\* history: step k took the branch tier, drew xi and left the path at x
Moved(tier, xi, x) ==
    [trace EXCEPT ![run][p] =
        [@ EXCEPT !.boundary = (@ \/ tier = "boundary"),
                  !.xis = Append(@, xi), !.logLs = Append(@, x),
                  !.tiers = Append(@, tier)]]

\* history: step k ended the path in the boundary zone
Stopped == [Mark("boundary", TRUE) EXCEPT ![run][p].tiers = Append(@, "boundary")]

\* history: a path's step-by-step record, dropped once both loops have run it
NoSteps(e) == [e EXCEPT !.xis = << >>, !.logLs = << >>, !.tiers = << >>]

\* history: path p of the running loop ends with what the loop variables hold
Ended(price_p) ==
    LET e == [trace[run][p] EXCEPT !.done = TRUE, !.knocked_out = knocked_out,
                                   !.exit_step = exit_step, !.price = price_p]
    IN  IF run = "main"
        THEN [trace EXCEPT !["main"][p] = e]
        ELSE [trace EXCEPT !["main"][p] = NoSteps(@), !["half"][p] = NoSteps(e)]

\* fault variant of StartPath: only the first path of the first loop takes
\* log(L0), the later ones go on from the array the previous path left
StartPathStale ==
    /\ pc = "init"
    /\ logL' = IF p = 0 /\ run = "main" THEN LnVec(L0) ELSE logL
    /\ knocked_out' = FALSE
    /\ exit_step' = params.M
    /\ sigma_max' = MaxOf(sigma)
    /\ coarse_bound' = CoarseBoundOf(MaxOf(sigma))
    /\ k' = 0
    /\ pc' = "step"
    /\ trace' = Started(logL')
    /\ UNCHANGED <<shared, payoffs, exit_times, discount_sums, prices, run, p,
                   price, mean_exit_time, raised, rng_pos>>

\* for p in range(n_paths): the per-path initialisation
StartPath ==
    /\ pc = "init"
    /\ logL' = LnVec(L0)
    /\ knocked_out' = FALSE
    /\ exit_step' = params.M
    /\ sigma_max' = MaxOf(sigma)
    /\ coarse_bound' = CoarseBoundOf(MaxOf(sigma))
    /\ k' = 0
    /\ pc' = "step"
    /\ trace' = Started(logL')
    /\ UNCHANGED <<shared, payoffs, exit_times, discount_sums, prices, run, p,
                   price, mean_exit_time, raised, rng_pos>>

\* xi = np.random.choice(...); diffusion = ...; logL += drift_vec + diffusion; continue
StandardMove(tier) ==
    /\ \E dv \in {drift_vec(logL)} :
         \E xi \in Shocks :
            /\ logL' = StandardStep(logL, dv, xi)
            /\ trace' = Moved(tier, xi, logL')
    /\ rng_pos' = rng_pos + params.N
    /\ k' = k + 1
    /\ pc' = AfterStep
    /\ UNCHANGED <<shared, payoffs, exit_times, discount_sums, prices, run, p,
                   knocked_out, exit_step, sigma_max, coarse_bound, price,
                   mean_exit_time, raised>>

\* the coarse check declares the step safe: one standard step
CoarseStep(tier) ==
    /\ tier = "coarse"
    /\ StandardMove(tier)

\* the coarse check fails, the fine check declares the step safe
FineStep(tier) ==
    /\ tier = "fine"
    /\ StandardMove(tier)

\* fault variant of ProjectionFails: the error is swallowed and the inner loop
\* goes on to the next step from the unprojected state
ProjectionFailureSwallowed(tier) ==
    /\ tier = "boundary"
    /\ raised' = "RuntimeError"
    /\ k' = k + 1
    /\ pc' = AfterStep
    /\ UNCHANGED <<shared, payoffs, exit_times, discount_sums, prices, run, p,
                   logL, knocked_out, exit_step, sigma_max, coarse_bound, price,
                   mean_exit_time, rng_pos, trace>>

\* minimize reports res.success False: RuntimeError out of the cell
ProjectionFails(tier) ==
    /\ tier = "boundary"
    /\ raised' = "RuntimeError"
    /\ pc' = "aborted"
    /\ UNCHANGED <<shared, payoffs, exit_times, discount_sums, prices, run, p, k,
                   logL, knocked_out, exit_step, sigma_max, coarse_bound, price,
                   mean_exit_time, rng_pos, trace>>

\* fault variant of BoundaryKnockOut: the break is missing, the inner loop
\* goes on after the knock-out
KnockOutNoBreak(tier) ==
    /\ tier = "boundary"
    /\ run = "main"
    /\ \E logL_pi \in {project_to_barrier2(logL, params.delta, params.Rup)} :
         \E dist \in {Norm(logL_pi, logL)} :
           \E u \in Uniforms : KnockOutDraw(u, dist)
    /\ knocked_out' = TRUE
    /\ exit_step' = k
    /\ k' = k + 1
    /\ pc' = AfterStep
    /\ rng_pos' = rng_pos + 1
    /\ trace' = Stopped
    /\ UNCHANGED <<shared, payoffs, exit_times, discount_sums, prices, run, p,
                   logL, sigma_max, coarse_bound, price, mean_exit_time, raised>>

\* main loop, boundary zone: the uniform draw knocks the path out
BoundaryKnockOut(tier) ==
    /\ tier = "boundary"
    /\ run = "main"
    /\ \E logL_pi \in {project_to_barrier2(logL, params.delta, params.Rup)} :
         \E dist \in {Norm(logL_pi, logL)} :
           \E u \in Uniforms : KnockOutDraw(u, dist)
    /\ knocked_out' = TRUE
    /\ exit_step' = k
    /\ pc' = "record"
    /\ rng_pos' = rng_pos + 1
    /\ trace' = Stopped
    /\ UNCHANGED <<shared, payoffs, exit_times, discount_sums, prices, run, p, k,
                   logL, sigma_max, coarse_bound, price, mean_exit_time, raised>>

\* fault variant of BoundaryContinue: the drift is recomputed from the state
\* after the jump back
ContinueDriftAfterJump(tier) ==
    /\ tier = "boundary"
    /\ run = "main"
    /\ \E logL_pi \in {project_to_barrier2(logL, params.delta, params.Rup)} :
         \E dist \in {Norm(logL_pi, logL)} :
           /\ \E u \in Uniforms : ~KnockOutDraw(u, dist)
           /\ \E jumped \in {JumpBack(logL, logL_pi, dist)} :
                \E dv \in {drift_vec(jumped)} :
                  \E xi \in Shocks :
                     /\ logL' = StandardStep(jumped, dv, xi)
                     /\ trace' = Moved(tier, xi, logL')
    /\ rng_pos' = rng_pos + 1 + params.N
    /\ k' = k + 1
    /\ pc' = AfterStep
    /\ UNCHANGED <<shared, payoffs, exit_times, discount_sums, prices, run, p,
                   knocked_out, exit_step, sigma_max, coarse_bound, price,
                   mean_exit_time, raised>>

\* main loop, boundary zone: no knock-out, jump back then Euler
BoundaryContinue(tier) ==
    /\ tier = "boundary"
    /\ run = "main"
    /\ \E logL_pi \in {project_to_barrier2(logL, params.delta, params.Rup)} :
         \E dist \in {Norm(logL_pi, logL)} :
           /\ \E u \in Uniforms : ~KnockOutDraw(u, dist)
           /\ \E dv \in {drift_vec(logL)} :
                \E jumped \in {JumpBack(logL, logL_pi, dist)} :
                  \E xi \in Shocks :
                     /\ logL' = StandardStep(jumped, dv, xi)
                     /\ trace' = Moved(tier, xi, logL')
    /\ rng_pos' = rng_pos + 1 + params.N
    /\ k' = k + 1
    /\ pc' = AfterStep
    /\ UNCHANGED <<shared, payoffs, exit_times, discount_sums, prices, run, p,
                   knocked_out, exit_step, sigma_max, coarse_bound, price,
                   mean_exit_time, raised>>

\* fault variant of HalfKnockOut: the exit step is recorded one step late
HalfKnockOutLate(tier) ==
    /\ tier = "boundary"
    /\ run = "half"
    /\ logL' = project_to_barrier2(logL, params.delta, params.Rup)
    /\ exit_step' = k + 1
    /\ knocked_out' = TRUE
    /\ pc' = "record"
    /\ trace' = Stopped
    /\ UNCHANGED <<shared, payoffs, exit_times, discount_sums, prices, run, p, k,
                   sigma_max, coarse_bound, price, mean_exit_time, raised, rng_pos>>

\* order-1/2 loop, boundary zone: project and stop
HalfKnockOut(tier) ==
    /\ tier = "boundary"
    /\ run = "half"
    /\ logL' = project_to_barrier2(logL, params.delta, params.Rup)
    /\ exit_step' = k
    /\ knocked_out' = TRUE
    /\ pc' = "record"
    /\ trace' = Stopped
    /\ UNCHANGED <<shared, payoffs, exit_times, discount_sums, prices, run, p, k,
                   sigma_max, coarse_bound, price, mean_exit_time, raised, rng_pos>>

\* one iteration of "for k in range(M)": the tiers on the state at its start
Step ==
    /\ pc = "step"
    /\ \E tier \in {Tier(logL)} :
          \/ CoarseStep(tier)
          \/ FineStep(tier)
          \/ ProjectionFails(tier)
          \/ BoundaryKnockOut(tier)
          \/ BoundaryContinue(tier)
          \/ HalfKnockOut(tier)

\* what the path writes into the result arrays after its inner loop
PayoffOf(x) == Mul(params.delta, Max2(R_swap(x, params.delta) - params.K, 0))

DiscountSumOf(x) ==
    LET L_end          == ExpVec(x)
        inv            == Array([i \in DOMAIN x |-> Div(Scale, Scale + Mul(params.delta, L_end[i]))])
        discount_curve == Array([i \in DOMAIN x |-> ProdUpTo(inv, i)])
    IN  Sum(discount_curve)

\* main loop: P0_T0 * (discount_sums[p] * payoffs[p]);
\* order-1/2 loop: P0_T0 * discount_sums[p] * payoffs[p]
PriceOf(dsum, pay) ==
    IF run = "main" THEN Mul(P0_T0, Mul(dsum, pay)) ELSE Mul(Mul(P0_T0, dsum), pay)

Record ==
    /\ pc = "record"
    /\ exit_times' = [exit_times EXCEPT ![p] = exit_step * params.h]
    /\ IF ~knocked_out
       THEN \E pay \in {PayoffOf(logL)} : \E dsum \in {DiscountSumOf(logL)} :
              /\ payoffs' = [payoffs EXCEPT ![p] = pay]
              /\ discount_sums' = [discount_sums EXCEPT ![p] = dsum]
              /\ prices' = [prices EXCEPT ![p] = PriceOf(dsum, pay)]
       ELSE UNCHANGED <<payoffs, discount_sums, prices>>
    /\ trace' = Ended(prices'[p])
    /\ p' = p + 1
    /\ pc' = IF p + 1 < params.n_paths THEN "init" ELSE "aggregate"
    /\ UNCHANGED <<shared, run, k, logL, knocked_out, exit_step, sigma_max,
                   coarse_bound, price, mean_exit_time, raised, rng_pos>>

\* np.mean
Mean(f) == TDiv(Sum(f), Dim(f))

\* the cell after each loop: price and mean exit time; then the next loop cell
Aggregate ==
    /\ pc = "aggregate"
    /\ price' = Append(price, Mean(prices))
    /\ mean_exit_time' = Append(mean_exit_time, Mean(exit_times))
    /\ IF run = "main"
       THEN /\ run' = "half"
            /\ p' = 0
            /\ pc' = "init"
       ELSE /\ pc' = "done"
            /\ UNCHANGED <<run, p>>
    /\ UNCHANGED <<shared, payoffs, exit_times, discount_sums, prices, k, logL,
                   knocked_out, exit_step, sigma_max, coarse_bound, raised, rng_pos,
                   trace>>

Next ==
    \/ StartPath
    \/ Step
    \/ Record
    \/ Aggregate

Spec == Init /\ [][Next]_vars

(***************************************************************************)
(* 6. The properties.                                                      *)
(***************************************************************************)
Paths == Idx(NPaths)

\* the path of the loop now running has left its inner loop and is recorded
Recorded(r, q) == trace[r][q].done

\* the swap rate of the curve L0, computed from L0 itself
SwapRate0 == R_swap(LnVec(L0), params.delta)

\* the swap rate after the standard step with shock xi from the current state
RateAfter(dv, xi) == R_swap(StandardStep(logL, dv, xi), params.delta)

\* C1: no false negative.  At every step of every path of both loops, when the
\* coarse check or the fine check declares the step safe, each of the 2^N
\* shock vectors xi takes the standard step to a state whose swap rate is
\* strictly below Rup.
C1_NoFalseNegative ==
    (pc = "step" /\ Tier(logL) # "boundary") =>
        \A dv \in {drift_vec(logL)} :
          \A xi \in Shocks : RateAfter(dv, xi) < params.Rup

\* a step declared safe by the fine check from which one shock reaches the barrier
C1_FineCheckCrossed ==
    /\ pc = "step"
    /\ Tier(logL) = "fine"
    /\ \E xi \in Shocks : RateAfter(drift_vec(logL), xi) >= params.Rup

\* C2: knocked-out paths contribute 0.  When a loop's price = mean(prices) is
\* about to be computed, every path index that ended knocked out in that loop
\* has payoffs[p] = 0 and prices[p] = 0.
C2_KnockedOutContributeZero ==
    pc = "aggregate" =>
        \A q \in Paths :
            trace[run][q].knocked_out => payoffs[q] = 0 /\ prices[q] = 0

\* C3: the path state machine.  A step is only taken by a path that is not
\* knocked out, has exit_step = M and has taken fewer than M steps; a path
\* leaves its inner loop either knocked out at a step k in 0..M-1 with
\* exit_step = k, or after all M steps, not knocked out, with exit_step = M;
\* the recorded exit time is exit_step*h and lies in [0, T0].
C3_PathStateMachine ==
    /\ k \in 0..params.M
    /\ pc = "step" => ~knocked_out /\ exit_step = params.M /\ k < params.M
    /\ pc = "record" =>
          /\ knocked_out => exit_step = k /\ k \in 0..(params.M - 1)
          /\ ~knocked_out => exit_step = params.M /\ k = params.M
    /\ \A q \in Paths :
          /\ exit_times[q] >= 0 /\ exit_times[q] <= params.T0
          /\ Recorded(run, q) =>
                /\ exit_times[q] = trace[run][q].exit_step * params.h
                /\ trace[run][q].knocked_out <=> trace[run][q].exit_step \in 0..(params.M - 1)
                /\ ~trace[run][q].knocked_out <=> trace[run][q].exit_step = params.M

\* one loop has recorded a knocked-out path and a survived one
C3_BothOutcomes ==
    /\ Recorded("main", 0) /\ trace["main"][0].knocked_out
    /\ trace["main"][0].exit_step = 1
    /\ Recorded("main", 1) /\ ~trace["main"][1].knocked_out
    /\ exit_times[0] = params.h /\ exit_times[1] = params.T0

\* C4: a barrier already breached at t = 0 is rejected at set-up.  When
\* Rup <= swapRate(L0, delta), no iteration of the path loop is entered and
\* no result entry is written.
C4_BreachedBarrierRejected ==
    params.Rup <= SwapRate0 =>
        /\ pc \notin {"step", "record", "aggregate", "done"}
        /\ \A r \in Runs, q \in Paths : ~trace[r][q].started

\* the mean of f(xi) over the 2^N equally likely shock vectors
RECURSIVE SumOver(_, _)
SumOver(f, S) ==
    IF S = {} THEN 0
    ELSE LET x == CHOOSE y \in S : TRUE IN f[x] + SumOver(f, S \ {x})

MeanDiffusion(i) ==
    TDiv(SumOver(Array([xi \in Shocks |-> diffusion(xi)[i]]), Shocks), Cardinality(Shocks))

CovDiffusion(i, j) ==
    TDiv(SumOver(Array([xi \in Shocks |-> Mul(diffusion(xi)[i], diffusion(xi)[j])]), Shocks),
         Cardinality(Shocks))

\* h * sigma_i * sigma_j * rho_ij
TargetCov(i, j) == Mul(params.h, Mul(Mul(sigma[i], sigma[j]), rho[i][j]))

\* the rounding allowed on a covariance entry: 1e-4 of the unit
CovTol == Scale \div 10000

\* C5: the moments of the standard step's shock.  Over the 2^N equally likely
\* +-1 vectors the diffusion increment of the step has mean 0 and covariance
\* h*sigma_i*sigma_j*rho_ij for every pair (i, j).
C5_ShockMoments ==
    \A i \in Idx(params.N), j \in Idx(params.N) :
        /\ MeanDiffusion(i) = 0
        /\ Abs(CovDiffusion(i, j) - TargetCov(i, j)) <= CovTol

\* the distance from the barrier allowed to a projected point: 1e-3, a thousand
\* times the 1e-6 of the projector's contract
ProjTol == Scale \div 1000

\* C6: the projector returns a point of the barrier.  When the order-1/2 loop
\* has replaced logL by project_to_barrier2(logL, delta, Rup), the swap rate of
\* logL is Rup up to the tolerance.
C6_ProjectionOnBarrier ==
    (run = "half" /\ pc = "record" /\ knocked_out) =>
        Abs(R_swap(logL, params.delta) - params.Rup) < ProjTol

\* C7: a projection failure is fatal.  The step on which the RuntimeError is
\* raised changes nothing but the control state: no retry draws, no further
\* step, no result entry, no aggregate; and once the cell is aborted nothing
\* happens any more.
C7_ProjectionFailureFatal ==
    [][ /\ raised' # "none" =>
              /\ pc' = "aborted"
              /\ <<p, k, logL, run, rng_pos, trace>>' = <<p, k, logL, run, rng_pos, trace>>
              /\ <<payoffs, exit_times, discount_sums, prices>>'
                    = <<payoffs, exit_times, discount_sums, prices>>
              /\ <<price, mean_exit_time>>' = <<price, mean_exit_time>>
        /\ pc = "aborted" => FALSE ]_vars

\* the projector has failed at the second path of the main loop, after the
\* first path was recorded: the arrays are partially filled, no aggregate exists
C7_FailedMidRun ==
    /\ raised = "RuntimeError"
    /\ pc = "aborted"
    /\ run = "main" /\ p = 1 /\ k = 1
    /\ Recorded("main", 0)
    /\ price = << >> /\ mean_exit_time = << >>

\* sigma = 0 in every component and the barrier is above the initial swap rate
Degenerate == (\A i \in Idx(params.N) : sigma[i] = 0) /\ params.Rup > SwapRate0

\* P(0,T0) * sum(discountCurve(L0)) * delta * max(swapRate(L0) - K, 0), from L0
ClosedFormPrice ==
    LET inv    == Array([i \in Idx(params.N) |-> Div(Scale, Scale + Mul(params.delta, L0[i]))])
        curve  == Array([i \in Idx(params.N) |-> ProdUpTo(inv, i)])
        numer  == Scale - curve[params.N - 1]
        denom  == Mul(params.delta, Sum(curve))
        payoff == Mul(params.delta, Max2(Div(numer, denom) - params.K, 0))
    IN  Mul(P0_T0, Mul(Sum(curve), payoff))

\* the rounding allowed on a price: 1e-5 of the unit
PriceTol == Scale \div 100000

\* C8: sigma = 0.  The state of a running path stays log(L0), every step is
\* declared safe by the coarse or the fine check, the projector never fails or
\* runs, no path is knocked out, and every recorded path survived with
\* exit_step = M and the closed-form price.
C8_DegenerateDeterministic ==
    Degenerate =>
        /\ pc \in {"step", "record"} => logL = LnVec(L0) /\ ~knocked_out
        /\ pc = "step" => Tier(logL) # "boundary"
        /\ raised = "none"
        /\ \A r \in Runs, q \in Paths :
              /\ ~trace[r][q].boundary
              /\ Recorded(r, q) =>
                    /\ ~trace[r][q].knocked_out
                    /\ trace[r][q].exit_step = params.M
                    /\ Abs(trace[r][q].price - ClosedFormPrice) <= PriceTol

\* sigma = 0, the coarse check fails at every step, and the main loop has
\* recorded all its paths, each with a positive price
C8_FineCheckedRun ==
    /\ Degenerate
    /\ run = "main" /\ pc = "aggregate"
    /\ MaxOf(LnVec(L0)) + coarse_bound >= Ln(params.Rup)
    /\ \A q \in Paths : Recorded("main", q) /\ trace["main"][q].price > 0

\* C9: a stream per path.  The position of the generator's stream at which a
\* path starts to draw is fixed by its index: it lies M*N draws after the
\* start of the path before it, whatever that path consumed.
C9_StreamKeyedByPath ==
    \A r \in Runs, q \in Paths :
        (q > 0 /\ trace[r][q].started) =>
            trace[r][q].start - trace[r][q - 1].start = params.M * params.N

\* C10: the shared model data are read-only and a path starts fresh.  No step
\* changes L0, sigma, rho, U, drift_mat, P0_T0 or the parameters; and each
\* path, in both loops, starts from logL = log(L0), not knocked out, with
\* exit_step = M.
C10_SharedReadOnlyFreshPaths ==
    [][ /\ shared' = shared
        /\ (pc = "init" /\ pc' = "step") =>
              /\ logL' = LnVec(L0')
              /\ ~knocked_out'
              /\ exit_step' = params'.M
              /\ k' = 0 ]_vars

\* the second path of the order-1/2 loop starts fresh after a path that was
\* projected and knocked out and, in the main loop, one that jumped back
C10_FreshAfterKnockOut ==
    /\ run = "half" /\ p = 1 /\ pc = "step" /\ k = 0
    /\ trace["half"][0].knocked_out
    /\ trace["main"][0].boundary /\ ~trace["main"][0].knocked_out
    /\ logL = LnVec(L0) /\ ~knocked_out /\ exit_step = params.M

\* a step declared safe: one standard step from x with drift dv, N draws, and
\* nothing else
SafeStepEffect(x, dv) ==
    /\ \E xi \in Shocks : logL' = StandardStep(x, dv, xi)
    /\ rng_pos' = rng_pos + params.N
    /\ k' = k + 1
    /\ raised' = "none"
    /\ <<knocked_out, exit_step>>' = <<knocked_out, exit_step>>
    /\ trace'[run][p].boundary = trace[run][p].boundary

\* the main loop's boundary zone from x, with the projection x_pi at distance d
BoundaryEffect(x, dv, x_pi, d) ==
    \/ raised' = "RuntimeError"
    \/ /\ \E u \in Uniforms : KnockOutDraw(u, d)
       /\ knocked_out' /\ exit_step' = k /\ logL' = x
       /\ rng_pos' = rng_pos + 1
    \/ /\ \E u \in Uniforms : ~KnockOutDraw(u, d)
       /\ ~knocked_out' /\ exit_step' = exit_step /\ k' = k + 1
       /\ \E xi \in Shocks : logL' = StandardStep(JumpBack(x, x_pi, d), dv, xi)
       /\ rng_pos' = rng_pos + 1 + params.N

\* C11: the tiers are tried in order on the state at the start of the step.
\* When the coarse or the fine check declares safe, the step is exactly one
\* standard step: no projection, no uniform draw, no knock-out.  A path is
\* knocked out at step k only from a state on which both checks fail.  In the
\* main loop's boundary zone the path is either knocked out with logL
\* unchanged, when u < lambda/(d + lambda), or logL is moved by
\* (lambda/d)*(x* - logL) and then advanced by one standard step with the
\* drift computed before the move.
C11_TiersInOrder ==
    [][ pc = "step" =>
          \A tier \in {Tier(logL)} : \A dv \in {drift_vec(logL)} :
            /\ tier # "boundary" => SafeStepEffect(logL, dv)
            /\ (knocked_out' \/ rng_pos' # rng_pos + params.N) => tier = "boundary"
            /\ (tier = "boundary" /\ run = "main") =>
                  \A x_pi \in {project_to_barrier2(logL, params.delta, params.Rup)} :
                      BoundaryEffect(logL, dv, x_pi, Norm(x_pi, logL)) ]_vars

\* from a curve below the barrier, a path of the main loop entered the boundary
\* zone, was not knocked out, jumped back and completed its M steps
C11_FineThenJumpBack ==
    /\ run = "main" /\ pc = "record" /\ ~knocked_out
    /\ trace["main"][p].boundary
    /\ k = params.M
    /\ logL # LnVec(L0)
    /\ params.Rup > SwapRate0

\* C13: no division by a zero distance.  In the boundary zone of the main loop
\* with max(sigma) > 0, when the projection coincides with the current state
\* every uniform draw in [0, 1) takes the knock-out branch, so the jump back,
\* which divides by dist, is not executed at that step.
C13_NoJumpBackAtZeroDistance ==
    (pc = "step" /\ run = "main" /\ sigma_max > 0 /\ Tier(logL) = "boundary") =>
        \A x_pi \in {project_to_barrier2(logL, params.delta, params.Rup)} :
            Norm(x_pi, logL) = 0 =>
                /\ lambda_k > 0
                /\ \A u \in Uniforms : KnockOutDraw(u, 0)

\* a path of the main loop was knocked out in the boundary zone at a state that
\* is exactly its own projection
C13_KnockedOutAtZeroDistance ==
    /\ run = "main" /\ pc = "record" /\ knocked_out
    /\ sigma_max > 0 /\ lambda_k > 0
    /\ project_to_barrier2(logL, params.delta, params.Rup) = logL

Min2(a, b) == IF a <= b THEN a ELSE b

\* the first n shock vectors of the histories a and b are the same
SameShocks(a, b, n) == \A i \in 1..n : a.xis[i] = b.xis[i]

\* no step before step i (counted from 1) of the history a was a boundary-zone step
CleanBefore(a, i) == \A j \in 1..(i - 1) : a.tiers[j] # "boundary"

\* C12: the order-1/2 loop against the main loop.  For the path p of the
\* order-1/2 loop and the same path of the main loop, whenever the two have
\* drawn the same shock vectors as far as both went: they have the same logL
\* and take the same branch at every step up to and including the first step
\* on which both checks fail; the order-1/2 path is knocked out exactly at
\* that step, so its exit step is never larger than the main loop's, it is
\* knocked out whenever the main loop's path is, and it survives only if the
\* main loop's path never entered the boundary zone.
C12_HalfRefinesMain ==
    (run = "half" /\ pc \in {"step", "record"}) =>
        LET m  == trace["main"][p]
            hf == trace["half"][p]
            n  == Min2(Len(hf.xis), Len(m.xis))
        IN  SameShocks(hf, m, n) =>
              /\ \A i \in 1..(n + 1) :
                    CleanBefore(m, i) => hf.logLs[i] = m.logLs[i]
              /\ \A i \in 1..Min2(n + 1, Min2(Len(hf.tiers), Len(m.tiers))) :
                    CleanBefore(m, i) => hf.tiers[i] = m.tiers[i]
              /\ pc = "record" =>
                    /\ exit_step <= m.exit_step
                    /\ m.knocked_out => knocked_out
                    /\ knocked_out =>
                          /\ Len(m.tiers) > exit_step
                          /\ m.tiers[exit_step + 1] = "boundary"
                          /\ CleanBefore(m, exit_step + 1)
                    /\ ~knocked_out =>
                          \A j \in 1..Len(m.tiers) : m.tiers[j] # "boundary"

\* with the same first shock vector, the main loop's path entered the boundary
\* zone at step 1, was not knocked out there and survived, while the order-1/2
\* path was knocked out at step 1
C12_MainSurvivesHalfKnockedOut ==
    /\ run = "half" /\ pc = "record" /\ knocked_out /\ exit_step = 1
    /\ ~trace["main"][p].knocked_out
    /\ trace["main"][p].tiers[2] = "boundary"
    /\ trace["main"][p].tiers[1] # "boundary"
    /\ SameShocks(trace["half"][p], trace["main"][p], 1)

====
